---- MODULE Spec2Model ----
(***************************************************************************)
(* Model of src/postgres_mcp/resource.py: the two resource handlers        *)
(* _get_tables_impl and _get_views_impl, which describe the tables or the  *)
(* views of a database by running catalog queries and merging the rows.    *)
(*                                                                         *)
(* Three specifications share the variables:                               *)
(*   Spec     one invocation of a handler, one action per awaited call;    *)
(*   SpecCon  the constraint accumulation loop (lines 241-263) over the    *)
(*            rows the constraint query (lines 211-237) yields on a small  *)
(*            catalog;                                                     *)
(*   SpecCol  the column loop (lines 188-206) over bounded column rows;    *)
(*   SpecTwice  Spec, with the handler invoked again on the same database. *)
(***************************************************************************)
EXTENDS Integers, Sequences, FiniteSets, TLC

VARIABLES
    db,                \* the database: catalog contents and failing queries
    kind,              \* "tables" (_get_tables_impl) or "views" (_get_views_impl)
    pc,                \* position of the handler (the await it is about to run)
    schemas,           \* local schemas
    entity_rows,       \* local table_rows / view_rows
    i,                 \* position of the for loop over table_rows / view_rows
    columns,           \* local columns
    constraints_list,  \* local constraints_list
    info,              \* local tables_info / views_info
    response,          \* what the handler returned
    calls,             \* the queries issued so far, in order
    col_rows,          \* local col_rows
    con_rows,          \* local con_rows
    constraints,       \* local constraints (insertion-ordered dict)
    cursor,            \* position of the loop over col_rows / con_rows
    returned           \* the responses of the invocations that ended earlier

vars == <<db, kind, pc, schemas, entity_rows, i, columns, constraints_list,
          info, response, calls, col_rows, con_rows, constraints, cursor,
          returned>>

----------------------------------------------------------------------------
(* Bounds *)

MaxEntities == 3
MaxCols == 2
MaxCons == 2
MaxInvocations == 2

----------------------------------------------------------------------------
(* Cells: a nullable cell is <<>> (SQL NULL, Python None) or <<v>>.          *)

NULL == <<>>

Some(v) == <<v>>

Range(s) == {s[n] : n \in DOMAIN s}

\* dict.get(key, default): the default is used only when the key is missing.
Get(cells, key, default) ==
    IF key \in DOMAIN cells THEN cells[key] ELSE default

\* Python truth value of a nullable integer cell: None and 0 are false.
TruthyInt(c) == c # NULL /\ c[1] # 0

\* Python truth value of a nullable string cell: None and "" are false.
TruthyStr(c) == c # NULL /\ c[1] # ""

\* The empty dict, and a dict literal extended by optional keys.
EmptyDict == [x \in {} |-> NULL]

----------------------------------------------------------------------------
(* Column loop, lines 188-206 (tables) and 418-436 (views).                 *)

col_info(cells) ==
    [name |-> cells.column_name,
     data_type |-> cells.data_type,
     is_nullable |-> cells.is_nullable,
     default |-> cells.column_default,
     position |-> cells.ordinal_position,
     comment |-> Get(cells, "column_comment", Some(""))]

type_details(cells) ==
    (IF TruthyInt(Get(cells, "character_maximum_length", NULL))
        THEN "max_length" :> cells.character_maximum_length ELSE EmptyDict)
    @@
    (IF TruthyInt(Get(cells, "numeric_precision", NULL))
        THEN "precision" :> cells.numeric_precision ELSE EmptyDict)
    @@
    (IF TruthyInt(Get(cells, "numeric_scale", NULL))
        THEN "scale" :> cells.numeric_scale ELSE EmptyDict)

\* One iteration of "for r in col_rows".
ColLoopBody(cols, cells) == Append(cols, col_info(cells) @@ type_details(cells))

RECURSIVE ColumnsFrom(_, _)
ColumnsFrom(cols, rows) ==
    IF rows = <<>> THEN cols
    ELSE ColumnsFrom(ColLoopBody(cols, Head(rows)), Tail(rows))

\* columns = []; if col_rows: for r in col_rows: ...
BuildColumns(rows) == ColumnsFrom(<<>>, rows)

----------------------------------------------------------------------------
(* The constraint query, lines 211-237, on a small catalog.                 *)
(*   cat.tc   information_schema.table_constraints of the table: a set of   *)
(*            [constraint_name, constraint_type]                            *)
(*   cat.kcu  key_column_usage rows of the table's schema: a set of         *)
(*            [constraint_name, column_name]; ordinal_position is the       *)
(*            column's place in ColOrder                                    *)
(*   cat.ccu  constraint_column_usage rows: a set of                        *)
(*            [constraint_name, column_name] of table RefTable              *)
(*   cat.ccu_order  the order in which the executor yields ccu rows that    *)
(*            the ORDER BY leaves tied                                      *)

TypeOrder == <<"CHECK", "FOREIGN KEY", "PRIMARY KEY">>

NameOrder == <<"c1", "c2">>

ColOrder == <<"a", "b">>

RefCols == {"x", "y"}

RefSchema == "app"

RefTable == "customers"

\* LEFT JOIN key_column_usage ... ORDER BY kcu.ordinal_position
KcuPart(cat, cname) ==
    LET Joined(c) == [constraint_name |-> cname, column_name |-> c] \in cat.kcu
        cs == SelectSeq(ColOrder, Joined)
    IN  IF cs = <<>> THEN <<NULL>> ELSE [n \in DOMAIN cs |-> Some(cs[n])]

\* LEFT JOIN constraint_column_usage ON name AND constraint_type = 'FOREIGN KEY'
CcuPart(cat, cname, ctype) ==
    LET Joined(c) == [constraint_name |-> cname, column_name |-> c] \in cat.ccu
        rs == SelectSeq(cat.ccu_order, Joined)
    IN  IF ctype # "FOREIGN KEY" \/ rs = <<>> THEN <<NULL>>
        ELSE [n \in DOMAIN rs |-> Some(rs[n])]

\* The SELECT list with its three CASE expressions.
ConRow(cname, ctype, col, ref) ==
    [constraint_name |-> cname,
     constraint_type |-> ctype,
     column_name |-> col,
     foreign_table_schema |->
         IF ctype = "FOREIGN KEY" /\ ref # NULL THEN Some(RefSchema) ELSE NULL,
     foreign_table_name |->
         IF ctype = "FOREIGN KEY" /\ ref # NULL THEN Some(RefTable) ELSE NULL,
     foreign_column_name |->
         IF ctype = "FOREIGN KEY" THEN ref ELSE NULL]

\* The joined rows of one table_constraints row.
ConGroup(cat, cname, ctype) ==
    LET ks == KcuPart(cat, cname)
        cs == CcuPart(cat, cname, ctype)
    IN  [n \in 1..(Len(ks) * Len(cs)) |->
            ConRow(cname, ctype, ks[((n - 1) \div Len(cs)) + 1],
                   cs[((n - 1) % Len(cs)) + 1])]

RECURSIVE ConQueryFrom(_, _)
ConQueryFrom(cat, n) ==
    IF n > Len(TypeOrder) * Len(NameOrder) THEN <<>>
    ELSE LET ctype == TypeOrder[((n - 1) \div Len(NameOrder)) + 1]
             cname == NameOrder[((n - 1) % Len(NameOrder)) + 1]
             here == IF [constraint_name |-> cname, constraint_type |-> ctype]
                            \in cat.tc
                        THEN ConGroup(cat, cname, ctype) ELSE <<>>
         IN  here \o ConQueryFrom(cat, n + 1)

\* ORDER BY tc.constraint_type, tc.constraint_name, kcu.ordinal_position
ConQuery(cat) == ConQueryFrom(cat, 1)

----------------------------------------------------------------------------
(* Constraint accumulation, lines 241-263.  The dict constraints keeps      *)
(* insertion order: a sequence of [key, data].                              *)

Has(d, key) == \E n \in DOMAIN d : d[n].key = key

At(d, key) == CHOOSE n \in DOMAIN d : d[n].key = key

\* lines 249-259: the entry created when cname is not in constraints
new_constraint(cells) ==
    ("type" :> cells.constraint_type) @@ ("columns" :> <<>>)
    @@
    (IF cells.constraint_type = "FOREIGN KEY"
        /\ TruthyStr(Get(cells, "foreign_table_name", NULL))
        THEN "references" :> [schema |-> cells.foreign_table_schema,
                              table |-> cells.foreign_table_name,
                              column |-> cells.foreign_column_name]
        ELSE EmptyDict)

\* lines 260-261: if col: constraints[cname]["columns"].append(col)
add_column(d, cells) ==
    IF TruthyStr(cells.column_name)
        THEN [d EXCEPT ![At(d, cells.constraint_name)].data["columns"] =
                           Append(@, cells.column_name[1])]
        ELSE d

\* Variant: the column append sits inside the "cname not in constraints" block.
ConLoopBody_append_in_new(d, cells) ==
    IF ~Has(d, cells.constraint_name)
        THEN add_column(Append(d, [key |-> cells.constraint_name,
                                   data |-> new_constraint(cells)]), cells)
        ELSE d

\* Variant: every qualifying foreign-key row sets the references block.
ConLoopBody_overwrite(d, cells) ==
    LET d1 == IF ~Has(d, cells.constraint_name)
                 THEN Append(d, [key |-> cells.constraint_name,
                                 data |-> new_constraint(cells)])
                 ELSE [d EXCEPT ![At(d, cells.constraint_name)].data =
                          IF "references" \in DOMAIN new_constraint(cells)
                              THEN ("references" :>
                                       new_constraint(cells)["references"]) @@ @
                              ELSE @]
    IN  add_column(d1, cells)

\* One iteration of "for con_row in con_rows".
ConLoopBody(d, cells) ==
    LET d1 == IF ~Has(d, cells.constraint_name)
                 THEN Append(d, [key |-> cells.constraint_name,
                                 data |-> new_constraint(cells)])
                 ELSE d
    IN  add_column(d1, cells)

RECURSIVE ConstraintsFrom(_, _)
ConstraintsFrom(d, rows) ==
    IF rows = <<>> THEN d
    ELSE ConstraintsFrom(ConLoopBody(d, Head(rows)), Tail(rows))

\* line 263: [{"name": name, **data} for name, data in constraints.items()]
ConstraintsList(d) == [n \in DOMAIN d |-> ("name" :> d[n].key) @@ d[n].data]

BuildConstraints(rows) == ConstraintsList(ConstraintsFrom(<<>>, rows))

----------------------------------------------------------------------------
(* Index loop, lines 284-293, and dependency loop, lines 460-468.           *)

index_info(cells) ==
    [name |-> cells.indexname,
     definition |-> cells.indexdef,
     size |-> cells.index_size,
     is_unique |-> cells.is_unique,
     is_primary |-> cells.is_primary]

BuildIndexes(rows) == [n \in DOMAIN rows |-> index_info(rows[n])]

\* dep_type_map.get(source_type, "unknown")
dep_type_map(t) ==
    IF t = "r" THEN "table"
    ELSE IF t = "v" THEN "view"
    ELSE IF t = "m" THEN "materialized view"
    ELSE "unknown"

dependency_info(cells) ==
    [schema |-> cells.source_schema,
     name |-> cells.source_table,
     type |-> dep_type_map(cells.source_type)]

BuildDependencies(rows) == [n \in DOMAIN rows |-> dependency_info(rows[n])]

----------------------------------------------------------------------------
(* Entity records and reports.                                              *)

\* lines 295-305
table_info(row, cols, cons, idxs) ==
    [schema |-> row.table_schema,
     name |-> row.table_name,
     type |-> "table",
     comment |-> Get(row, "table_comment", Some("")),
     size |-> Get(row, "table_size", Some("")),
     estimated_rows |-> Get(row, "estimated_rows", Some(0)),
     columns |-> cols,
     constraints |-> cons,
     indexes |-> idxs]

\* lines 470-478
view_info(row, cols, deps) ==
    [schema |-> row.table_schema,
     name |-> row.table_name,
     type |-> "view",
     comment |-> Get(row, "view_comment", Some("")),
     definition |-> Get(row, "view_definition", Some("")),
     columns |-> cols,
     dependencies |-> deps]

\* Variant: the record is inserted at the head of the list.
Appended_front(list, record) == <<record>> \o list

\* tables_info.append(table_info) / views_info.append(view_info)
Appended(list, record) == Append(list, record)

format_text_response(body) == [type |-> "text", body |-> body]

format_error_response(text) == [type |-> "error", text |-> text]

NoResponse == [type |-> "none"]

database_name == "shop"

ListKey(k) == IF k = "tables" THEN "tables" ELSE "views"

TotalKey(k) == IF k = "tables" THEN "total_tables" ELSE "total_views"

\* lines 151-155 and 381-385: the report returned when the listing is empty
EmptyResult(k, schs) ==
    ("database" :> database_name) @@ ("schemas" :> schs) @@ (ListKey(k) :> <<>>)

\* lines 313-318 and 486-491
Result(k, schs, list) ==
    ("database" :> database_name) @@ ("schemas" :> schs)
    @@ (ListKey(k) :> list) @@ (TotalKey(k) :> Len(list))

----------------------------------------------------------------------------
(* The database seen by one invocation: catalog contents and, for every     *)
(* query the handler can issue, whether the executor raises on it.          *)

Kinds == {"tables", "views"}

AllSchemas == <<"app", "web">>

AllEntities ==
    << [schema |-> "app", name |-> "orders"],
       [schema |-> "app", name |-> "users"],
       [schema |-> "web", name |-> "orders"],
       [schema |-> "web", name |-> "users"] >>

\* The relations of the catalog, in ORDER BY table_schema, table_name order.
Universe == SubSeq(AllEntities, 1, MaxEntities)

SchemaRow(s) == [schema_name |-> s, schema_owner |-> "dba", schema_type |-> "user"]

\* A row of the table listing (lines 133-146) or view listing (365-376).
EntityRow(k, e) ==
    IF k = "tables"
        THEN [table_schema |-> e.schema, table_name |-> e.name,
              table_size |-> Some("8192 bytes"), estimated_rows |-> Some(0),
              table_comment |-> NULL]
        ELSE [table_schema |-> e.schema, table_name |-> e.name,
              view_definition |-> Some("SELECT 1"), view_comment |-> NULL]

\* The members of Universe picked by the index set S, in Universe order.
Pick(k, S) ==
    LET F[n \in 0..Len(Universe)] ==
            IF n = 0 THEN <<>>
            ELSE IF n \in S THEN Append(F[n - 1], EntityRow(k, Universe[n]))
            ELSE F[n - 1]
    IN  F[Len(Universe)]

Failed == [ok |-> FALSE, rows |-> <<>>]

Rows(rs) == [ok |-> TRUE, rows |-> rs]

ColRowId ==
    [column_name |-> "id", data_type |-> "integer", is_nullable |-> "NO",
     column_default |-> NULL, ordinal_position |-> 1,
     character_maximum_length |-> NULL, numeric_precision |-> Some(32),
     numeric_scale |-> Some(0), column_comment |-> NULL]

ColRowEmail ==
    [column_name |-> "email", data_type |-> "character varying",
     is_nullable |-> "NO", column_default |-> NULL, ordinal_position |-> 2,
     character_maximum_length |-> Some(255), numeric_precision |-> NULL,
     numeric_scale |-> NULL, column_comment |-> Some("login")]

CatKeys ==
    [tc |-> {[constraint_name |-> "c1", constraint_type |-> "PRIMARY KEY"],
             [constraint_name |-> "c2", constraint_type |-> "FOREIGN KEY"]},
     kcu |-> {[constraint_name |-> "c1", column_name |-> "a"],
              [constraint_name |-> "c2", column_name |-> "b"]},
     ccu |-> {[constraint_name |-> "c2", column_name |-> "x"]},
     ccu_order |-> <<"x", "y">>]

IdxRow ==
    [indexname |-> "c1", indexdef |-> "CREATE UNIQUE INDEX c1 ON t (a)",
     index_size |-> "16 kB", is_unique |-> TRUE, is_primary |-> TRUE]

DepRow ==
    [source_schema |-> "app", source_table |-> "users", source_type |-> "r"]

ColOutcomes == {Failed, Rows(<<ColRowId>>), Rows(<<ColRowId, ColRowEmail>>)}

ConOutcomes == {Failed, Rows(ConQuery(CatKeys))}

IdxOutcomes == {Failed, Rows(<<IdxRow>>)}

DepOutcomes == {Failed, Rows(<<DepRow>>)}

\* What the collectors of one entity get from the executor.
Results(k) ==
    IF k = "tables"
        THEN [columns : ColOutcomes, constraints : ConOutcomes,
              indexes : IdxOutcomes]
        ELSE [columns : ColOutcomes, dependencies : DepOutcomes]

\* The entities a catalog with the first ns schemas can hold.
Eligible(ns) ==
    { n \in 1..Len(Universe) :
        \E m \in 1..ns : AllSchemas[m] = Universe[n].schema }

Database(k, ns, S, df, sf, lf, r) ==
    [driver_fails |-> df, schema_fails |-> sf, list_fails |-> lf,
     schemas |-> [n \in 1..ns |-> SchemaRow(AllSchemas[n])],
     entities |-> Pick(k, S),
     results |-> r]

NoRows == <<>>

Init ==
    /\ kind \in Kinds
    /\ \E ns \in 0..Len(AllSchemas), df \in BOOLEAN, sf \in BOOLEAN, lf \in BOOLEAN :
         \E S \in SUBSET Eligible(ns) :
            \E r \in [1..Cardinality(S) -> Results(kind)] :
                db = Database(kind, ns, S, df, sf, lf, r)
    /\ pc = "driver"
    /\ schemas = <<>>
    /\ entity_rows = <<>>
    /\ i = 0
    /\ columns = <<>>
    /\ constraints_list = <<>>
    /\ info = <<>>
    /\ response = NoResponse
    /\ calls = <<>>
    /\ col_rows = NoRows
    /\ con_rows = NoRows
    /\ constraints = <<>>
    /\ cursor = 0
    /\ returned = <<>>

\* What the handler's actions never write: the locals of the collector loops
\* stepped in SpecCon and SpecCol, and the earlier responses.
pure_vars == <<col_rows, con_rows, constraints, cursor, returned>>

----------------------------------------------------------------------------
(* The handlers, one action per awaited call.                               *)

\* Variant: the outer except answers with an empty report.
Abort_empty_report(text) ==
    /\ response' = format_text_response(EmptyResult(kind, schemas))
    /\ pc' = "done"

\* The outer except, lines 321-323 and 494-496.
Abort(text) ==
    /\ response' = format_error_response(text)
    /\ pc' = "done"

\* line 109 / 341: sql_driver = await get_sql_driver_for_database(...)
GetDriver ==
    /\ pc = "driver"
    /\ IF db.driver_fails
          THEN Abort("driver")
          ELSE pc' = "schemas" /\ UNCHANGED response
    /\ UNCHANGED <<db, kind, schemas, entity_rows, i, columns,
                   constraints_list, info, calls, pure_vars>>

\* lines 112-128 / 344-360: the schema enumeration
QuerySchemas ==
    /\ pc = "schemas"
    /\ calls' = Append(calls, <<"schemas", 0>>)
    /\ IF db.schema_fails
          THEN Abort("schemas") /\ UNCHANGED schemas
          ELSE /\ schemas' = db.schemas
               /\ pc' = "list"
               /\ UNCHANGED response
    /\ UNCHANGED <<db, kind, entity_rows, i, columns, constraints_list,
                   info, pure_vars>>

\* Variant: tables_info / views_info is not emptied before the loop, as a
\* list kept at module level would be.
Listing_keep_info(k) ==
    /\ pc = "list"
    /\ kind = k
    /\ calls' = Append(calls, <<"list", 0>>)
    /\ IF db.list_fails
          THEN Abort("list") /\ UNCHANGED <<entity_rows, i, info>>
          ELSE IF db.entities = <<>>
          THEN /\ response' = format_text_response(EmptyResult(k, schemas))
               /\ pc' = "done"
               /\ UNCHANGED <<entity_rows, i, info>>
          ELSE /\ entity_rows' = db.entities
               /\ i' = 1
               /\ pc' = "columns"
               /\ UNCHANGED <<response, info>>
    /\ UNCHANGED <<db, kind, schemas, columns, constraints_list, pure_vars>>

\* lines 131-157 / 363-387: the entity listing, the early return on no rows
Listing(k) ==
    /\ pc = "list"
    /\ kind = k
    /\ calls' = Append(calls, <<"list", 0>>)
    /\ IF db.list_fails
          THEN Abort("list") /\ UNCHANGED <<entity_rows, i, info>>
          ELSE IF db.entities = <<>>
          THEN /\ response' = format_text_response(EmptyResult(k, schemas))
               /\ pc' = "done"
               /\ UNCHANGED <<entity_rows, i, info>>
          ELSE /\ entity_rows' = db.entities
               /\ info' = <<>>
               /\ i' = 1
               /\ pc' = "columns"
               /\ UNCHANGED response
    /\ UNCHANGED <<db, kind, schemas, columns, constraints_list, pure_vars>>

ListTables == Listing("tables")

ListViews == Listing("views")

\* The end of one iteration of the for loop over the listed entities, and
\* after the last one lines 313-320 / 486-493.
Advance(new_info) ==
    /\ info' = new_info
    /\ IF i < Len(entity_rows)
          THEN i' = i + 1 /\ pc' = "columns" /\ UNCHANGED response
          ELSE /\ i' = i
               /\ pc' = "done"
               /\ response' = format_text_response(Result(kind, schemas, new_info))

\* Variant: the inner except keeps what was collected before the failure.
ExceptEntity_partial ==
    Advance(Appended(info,
        IF kind = "tables"
            THEN table_info(entity_rows[i],
                            IF pc = "columns" THEN <<>> ELSE columns, <<>>, <<>>)
            ELSE view_info(entity_rows[i],
                           IF pc = "columns" THEN <<>> ELSE columns, <<>>)))

\* Variant: the inner except ends the loop over the listed entities.
ExceptEntity_break ==
    /\ info' = info
    /\ i' = i
    /\ pc' = "done"
    /\ response' = format_text_response(Result(kind, schemas, info))

\* The inner except, lines 309-311 / 482-484: log and continue.
ExceptEntity == Advance(info)

\* lines 164-206 / 394-436: the column query and the column loop
Columns(k, next) ==
    /\ pc = "columns"
    /\ kind = k
    /\ calls' = Append(calls, <<"columns", i>>)
    /\ IF db.results[i].columns.ok
          THEN /\ columns' = BuildColumns(db.results[i].columns.rows)
               /\ pc' = next
               /\ UNCHANGED <<i, info, response>>
          ELSE ExceptEntity /\ UNCHANGED columns
    /\ UNCHANGED <<db, kind, schemas, entity_rows, constraints_list, pure_vars>>

TableColumns == Columns("tables", "constraints")

ViewColumns == Columns("views", "dependencies")

\* lines 209-263: the constraint query and the accumulation
TableConstraints ==
    /\ pc = "constraints"
    /\ calls' = Append(calls, <<"constraints", i>>)
    /\ IF db.results[i].constraints.ok
          THEN /\ constraints_list' =
                      BuildConstraints(db.results[i].constraints.rows)
               /\ pc' = "indexes"
               /\ UNCHANGED <<i, info, response>>
          ELSE ExceptEntity /\ UNCHANGED constraints_list
    /\ UNCHANGED <<db, kind, schemas, entity_rows, columns, pure_vars>>

\* lines 266-307: the index query, the index loop, table_info appended
TableIndexes ==
    /\ pc = "indexes"
    /\ calls' = Append(calls, <<"indexes", i>>)
    /\ IF db.results[i].indexes.ok
          THEN Advance(Appended(info,
                   table_info(entity_rows[i], columns, constraints_list,
                              BuildIndexes(db.results[i].indexes.rows))))
          ELSE ExceptEntity
    /\ UNCHANGED <<db, kind, schemas, entity_rows, columns, constraints_list,
                   pure_vars>>

\* lines 439-480: the dependency query, the loop, view_info appended
ViewDependencies ==
    /\ pc = "dependencies"
    /\ calls' = Append(calls, <<"dependencies", i>>)
    /\ IF db.results[i].dependencies.ok
          THEN Advance(Appended(info,
                   view_info(entity_rows[i], columns,
                             BuildDependencies(db.results[i].dependencies.rows))))
          ELSE ExceptEntity
    /\ UNCHANGED <<db, kind, schemas, entity_rows, columns, constraints_list,
                   pure_vars>>

Next ==
    \/ GetDriver
    \/ QuerySchemas
    \/ ListTables
    \/ ListViews
    \/ TableColumns
    \/ TableConstraints
    \/ TableIndexes
    \/ ViewColumns
    \/ ViewDependencies

Spec == Init /\ [][Next]_vars

\* lines 47, 57, 76, 89: the resource is read again and the handler is called
\* anew on the same database.  The new call has its own frame: its locals
\* are unbound until the handler assigns them, which is modelled by leaving
\* in them whatever the previous call left, so that any read of a local
\* before its assignment would show in the response.
Reinvoke ==
    /\ pc = "done"
    /\ Len(returned) < MaxInvocations - 1
    /\ returned' = Append(returned, response)
    /\ response' = NoResponse
    /\ calls' = <<>>
    /\ pc' = "driver"
    /\ UNCHANGED <<db, kind, schemas, entity_rows, i, columns,
                   constraints_list, info, col_rows, con_rows, constraints,
                   cursor>>

NextTwice == Next \/ Reinvoke

SpecTwice == Init /\ [][NextTwice]_vars

----------------------------------------------------------------------------
(* SpecCon: the constraint collector of one table on a small catalog.       *)

TcRows == [constraint_name : Range(NameOrder), constraint_type : Range(TypeOrder)]

KcuRows == [constraint_name : Range(NameOrder), column_name : Range(ColOrder)]

CcuRows == [constraint_name : Range(NameOrder), column_name : RefCols]

CcuOrders == {<<"x", "y">>, <<"y", "x">>}

InitCon ==
    /\ kind = "tables"
    /\ \E tc \in SUBSET TcRows, kcu \in SUBSET KcuRows, ccu \in SUBSET CcuRows,
          ord \in CcuOrders :
            /\ Cardinality(tc) <= MaxCons
            /\ db = [tc |-> tc, kcu |-> kcu, ccu |-> ccu, ccu_order |-> ord]
    /\ pc = "con_query"
    /\ schemas = <<>>
    /\ entity_rows = <<>>
    /\ i = 0
    /\ columns = <<>>
    /\ constraints_list = <<>>
    /\ info = <<>>
    /\ response = NoResponse
    /\ calls = <<>>
    /\ col_rows = NoRows
    /\ con_rows = NoRows
    /\ constraints = <<>>
    /\ cursor = 0
    /\ returned = <<>>

handler_vars == <<db, kind, schemas, entity_rows, i, info, response, calls,
                  returned>>

\* lines 209-241: con_rows = await execute_param_query(...); constraints = {}
ConExecute ==
    /\ pc = "con_query"
    /\ con_rows' = ConQuery(db)
    /\ constraints' = <<>>
    /\ cursor' = 1
    /\ pc' = "con_loop"
    /\ UNCHANGED <<handler_vars, columns, constraints_list, col_rows>>

\* lines 243-261: one iteration of the loop over con_rows
ConLoop ==
    /\ pc = "con_loop"
    /\ cursor <= Len(con_rows)
    /\ constraints' = ConLoopBody(constraints, con_rows[cursor])
    /\ cursor' = cursor + 1
    /\ UNCHANGED <<handler_vars, pc, columns, constraints_list, col_rows, con_rows>>

\* line 263: the loop is over, constraints_list is built
ConFinish ==
    /\ pc = "con_loop"
    /\ cursor > Len(con_rows)
    /\ constraints_list' = ConstraintsList(constraints)
    /\ pc' = "con_done"
    /\ UNCHANGED <<handler_vars, columns, col_rows, con_rows, constraints, cursor>>

NextCon == ConExecute \/ ConLoop \/ ConFinish

SpecCon == InitCon /\ [][NextCon]_vars

----------------------------------------------------------------------------
(* SpecCol: the column collector of one entity on bounded column rows.      *)

ColNames == <<"id", "email", "total", "note">>

\* The rows information_schema.columns can hold at ordinal_position n.
ColRowsAt(n) ==
    [column_name : {ColNames[n]},
     data_type : {"numeric"},
     is_nullable : {"NO"},
     column_default : {NULL},
     ordinal_position : {n},
     character_maximum_length : {NULL, Some(255)},
     numeric_precision : {NULL, Some(32)},
     numeric_scale : {NULL, Some(0), Some(2)},
     column_comment : {NULL, Some("login")}]

InitCol ==
    /\ kind \in Kinds
    /\ db = [columns |-> "information_schema.columns"]
    /\ pc = "col_loop"
    /\ \E len \in 0..MaxCols :
          \E rows \in [1..len -> UNION {ColRowsAt(n) : n \in 1..len}] :
              /\ \A n \in 1..len : rows[n].ordinal_position = n
              /\ col_rows = rows
    /\ schemas = <<>>
    /\ entity_rows = <<>>
    /\ i = 0
    /\ columns = <<>>
    /\ constraints_list = <<>>
    /\ info = <<>>
    /\ response = NoResponse
    /\ calls = <<>>
    /\ con_rows = NoRows
    /\ constraints = <<>>
    /\ cursor = 1
    /\ returned = <<>>

\* lines 190-206 / 420-436: one iteration of the loop over col_rows
ColLoop ==
    /\ pc = "col_loop"
    /\ cursor <= Len(col_rows)
    /\ columns' = ColLoopBody(columns, col_rows[cursor])
    /\ cursor' = cursor + 1
    /\ UNCHANGED <<handler_vars, pc, constraints_list, col_rows, con_rows,
                   constraints>>

ColFinish ==
    /\ pc = "col_loop"
    /\ cursor > Len(col_rows)
    /\ pc' = "col_done"
    /\ UNCHANGED <<handler_vars, columns, constraints_list, col_rows, con_rows,
                   constraints, cursor>>

NextCol == ColLoop \/ ColFinish

SpecCol == InitCol /\ [][NextCol]_vars

----------------------------------------------------------------------------
(* Properties of the handlers (Spec).                                       *)

TopFailure == db.driver_fails \/ db.schema_fails \/ db.list_fails

Collectors(k) ==
    IF k = "tables" THEN <<"columns", "constraints", "indexes">>
    ELSE <<"columns", "dependencies">>

\* Every collector of the n-th listed entity succeeds.
AllSucceed(n) ==
    \A p \in DOMAIN Collectors(kind) : db.results[n][Collectors(kind)[p]].ok

\* The p-th collector of the n-th listed entity is called and fails.
CalledFails(n, p) ==
    /\ ~db.results[n][Collectors(kind)[p]].ok
    /\ \A q \in 1..(p - 1) : db.results[n][Collectors(kind)[q]].ok

\* The record of the n-th listed entity, from its own rows alone.
ExpectedRecord(n) ==
    IF kind = "tables"
        THEN table_info(db.entities[n],
                        BuildColumns(db.results[n].columns.rows),
                        BuildConstraints(db.results[n].constraints.rows),
                        BuildIndexes(db.results[n].indexes.rows))
        ELSE view_info(db.entities[n],
                       BuildColumns(db.results[n].columns.rows),
                       BuildDependencies(db.results[n].dependencies.rows))

ReportList == response.body[ListKey(kind)]

SameEntity(record, row) ==
    record.schema = row.table_schema /\ record.name = row.table_name

\* C1: when a collector called for a listed entity E fails, the handler
\* still returns a success report, no record of E is in the report's entity
\* list, and every listed entity whose collectors all succeed appears with
\* the record built from its own rows.
C1_FailureIsolation ==
    (pc = "done" /\ ~TopFailure) =>
        \A n \in DOMAIN db.entities :
            (\E p \in DOMAIN Collectors(kind) : CalledFails(n, p)) =>
                /\ response.type = "text"
                /\ \A p \in DOMAIN ReportList :
                       ~SameEntity(ReportList[p], db.entities[n])
                /\ \A m \in DOMAIN db.entities :
                       AllSucceed(m) =>
                           \E p \in DOMAIN ReportList :
                               ReportList[p] = ExpectedRecord(m)

\* An entity fails after its columns were collected, and a later entity
\* succeeds and is reported.
C1_Witness ==
    /\ pc = "done"
    /\ ~TopFailure
    /\ response.type = "text"
    /\ \E n, m \in DOMAIN db.entities :
          /\ n < m
          /\ CalledFails(n, 2)
          /\ AllSucceed(m)
          /\ \E p \in DOMAIN ReportList : ReportList[p] = ExpectedRecord(m)

\* C2: every success report carries a total (total_tables / total_views)
\* equal to the length of the entity list of the same report.
C2_TotalEqualsLength ==
    (pc = "done" /\ response.type = "text") =>
        /\ TotalKey(kind) \in DOMAIN response.body
        /\ response.body[TotalKey(kind)] = Len(ReportList)

\* C3: when the listing returns no rows the handler returns a success
\* report with an empty entity list, the enumerated schemas and total 0.
C3_EmptyListingReport ==
    (pc = "done" /\ ~TopFailure /\ db.entities = <<>>) =>
        /\ response.type = "text"
        /\ ReportList = <<>>
        /\ response.body["schemas"] = db.schemas
        /\ TotalKey(kind) \in DOMAIN response.body
        /\ response.body[TotalKey(kind)] = 0

IsCollectorCall(c) == c[1] \notin {"schemas", "list"}

\* C4: when the driver, the schema enumeration or the entity listing fails,
\* the handler returns an error response and no report and calls no
\* collector; a handler that returned answers with an error response only
\* in that case, whatever the collectors did.
C4_TopLevelFailureAborts ==
    /\ TopFailure =>
          /\ response.type # "text"
          /\ info = <<>>
          /\ \A n \in DOMAIN calls : ~IsCollectorCall(calls[n])
    /\ pc = "done" => (response.type = "error" <=> TopFailure)

\* The listing of a catalog that holds entities fails.
C4_Witness ==
    /\ pc = "done"
    /\ response.type = "error"
    /\ ~db.driver_fails
    /\ ~db.schema_fails
    /\ db.list_fails
    /\ db.entities # <<>>
    /\ Len(calls) = 2

ListedKeys == [n \in DOMAIN db.entities |->
                  <<db.entities[n].table_schema, db.entities[n].table_name>>]

ReportKeys == [p \in DOMAIN ReportList |->
                  <<ReportList[p].schema, ReportList[p].name>>]

Distinct(seq) == \A p, q \in DOMAIN seq : p # q => seq[p] # seq[q]

IsSubsequence(a, b) ==
    \E f \in [DOMAIN a -> DOMAIN b] :
        /\ \A p, q \in DOMAIN a : p < q => f[p] < f[q]
        /\ \A p \in DOMAIN a : a[p] = b[f[p]]

\* C10: the listed (schema, name) pairs being pairwise distinct, the
\* records of a report are an order-preserving subsequence of the listed
\* entities and no pair occurs twice.
C10_OrderedSubsequence ==
    (pc = "done" /\ response.type = "text" /\ Distinct(ListedKeys)) =>
        /\ IsSubsequence(ReportKeys, ListedKeys)
        /\ Distinct(ReportKeys)

\* Two entities are reported and one between them failed.
C10_Witness ==
    /\ pc = "done"
    /\ response.type = "text"
    /\ ~TopFailure
    /\ Len(ReportList) >= 2
    /\ \E a, f, b \in DOMAIN db.entities :
          a < f /\ f < b /\ AllSucceed(a) /\ ~AllSucceed(f) /\ AllSucceed(b)

----------------------------------------------------------------------------
(* Properties of the constraint collector (SpecCon).                        *)

\* The rows of one constraint name, in row order.
NamedRows(rows, cname) ==
    LET Named(r) == r.constraint_name = cname
    IN  SelectSeq(rows, Named)

\* The non-null column_name cells of rows, one per row, in row order.
NonNullColumns(rows) ==
    LET HasColumn(r) == r.column_name # NULL
        kept == SelectSeq(rows, HasColumn)
    IN  [n \in DOMAIN kept |-> kept[n].column_name[1]]

\* A FOREIGN KEY row with a resolved target table.
Qualifies(r) ==
    r.constraint_type = "FOREIGN KEY" /\ r.foreign_table_name # NULL

RefOf(r) ==
    [schema |-> r.foreign_table_schema,
     table |-> r.foreign_table_name,
     column |-> r.foreign_column_name]

KcuCols(cname) ==
    {c \in Range(ColOrder) :
        [constraint_name |-> cname, column_name |-> c] \in db.kcu}

CcuCols(cname) ==
    {c \in RefCols : [constraint_name |-> cname, column_name |-> c] \in db.ccu}

\* A foreign key, the only constraint of its name, whose N >= 1 referencing
\* columns reference N columns.
IsForeignKey(cname) ==
    /\ [constraint_name |-> cname, constraint_type |-> "FOREIGN KEY"] \in db.tc
    /\ \A t \in db.tc :
          t.constraint_name = cname => t.constraint_type = "FOREIGN KEY"
    /\ KcuCols(cname) # {}
    /\ Cardinality(CcuCols(cname)) = Cardinality(KcuCols(cname))

\* C5: the record of a foreign key with N referencing columns has a columns
\* list of length N without duplicates, and there is one record of that
\* name, carrying the references block.
C5_ForeignKeyColumns ==
    pc = "con_done" =>
        \A cname \in Range(NameOrder) :
            IsForeignKey(cname) =>
                /\ \E p \in DOMAIN constraints_list :
                      /\ constraints_list[p]["name"] = cname
                      /\ Len(constraints_list[p]["columns"])
                             = Cardinality(KcuCols(cname))
                      /\ Distinct(constraints_list[p]["columns"])
                      /\ "references" \in DOMAIN constraints_list[p]
                /\ \A p, q \in DOMAIN constraints_list :
                      (constraints_list[p]["name"] = cname
                          /\ constraints_list[q]["name"] = cname) => p = q

\* C6: every constraint name that occurs in a row has a record whose
\* columns list is not empty.
C6_NoEmptyColumns ==
    pc = "con_done" =>
        \A n \in DOMAIN con_rows :
            \E p \in DOMAIN constraints_list :
                /\ constraints_list[p]["name"] = con_rows[n].constraint_name
                /\ constraints_list[p]["columns"] # <<>>

\* C6 as amended: every constraint name that occurs in a row has a record,
\* whose columns list holds the non-null column_name of each row of that
\* name, in row order; it is empty when all rows of the name carry NULL.
C6_ColumnsAreNonNullCells ==
    pc = "con_done" =>
        \A n \in DOMAIN con_rows :
            \E p \in DOMAIN constraints_list :
                /\ constraints_list[p]["name"] = con_rows[n].constraint_name
                /\ constraints_list[p]["columns"] =
                       NonNullColumns(NamedRows(con_rows,
                                                con_rows[n].constraint_name))

\* A record without columns next to a record of several columns.
C6_Witness ==
    /\ pc = "con_done"
    /\ \E p, q \in DOMAIN constraints_list :
          /\ constraints_list[p]["columns"] = <<>>
          /\ \E n \in DOMAIN con_rows :
                /\ con_rows[n].constraint_name = constraints_list[p]["name"]
                /\ con_rows[n].column_name = NULL
          /\ Len(constraints_list[q]["columns"]) >= 2

\* C7: the references block of a record is that of the first qualifying
\* row of its name, wherever that row stands among the rows of the name,
\* and is absent only when no row of the name qualifies.
C7_ReferenceFromFirstQualifying ==
    pc = "con_done" =>
        \A p \in DOMAIN constraints_list :
            LET mine == NamedRows(con_rows, constraints_list[p]["name"])
                Q == {k \in DOMAIN mine : Qualifies(mine[k])}
            IN  IF Q = {}
                    THEN "references" \notin DOMAIN constraints_list[p]
                    ELSE /\ "references" \in DOMAIN constraints_list[p]
                         /\ constraints_list[p]["references"] =
                                RefOf(mine[CHOOSE k \in Q :
                                               \A j \in Q : k <= j])

\* The rows consumed by the loop so far.
Processed == SubSeq(con_rows, 1, cursor - 1)

\* C7 as amended: at every point of the loop, the references block of an
\* entry is that of the first row seen for its name when that row is a
\* FOREIGN KEY row with a resolved target table, and is absent otherwise;
\* later rows of the name neither set nor replace it.
C7_ReferenceFromFirstRow ==
    pc \in {"con_loop", "con_done"} =>
        \A p \in DOMAIN constraints :
            LET mine == NamedRows(Processed, constraints[p].key)
            IN  /\ mine # <<>>
                /\ IF Qualifies(mine[1])
                      THEN /\ "references" \in DOMAIN constraints[p].data
                           /\ constraints[p].data["references"] = RefOf(mine[1])
                      ELSE "references" \notin DOMAIN constraints[p].data

\* A record carries the references of its first row although a later row
\* of the name qualifies with another referenced column.
C7_Witness ==
    /\ pc = "con_done"
    /\ \E p \in DOMAIN constraints_list :
          LET mine == NamedRows(con_rows, constraints_list[p]["name"])
          IN  /\ "references" \in DOMAIN constraints_list[p]
              /\ constraints_list[p]["references"] = RefOf(mine[1])
              /\ \E k \in DOMAIN mine :
                    k > 1 /\ Qualifies(mine[k]) /\ RefOf(mine[k]) # RefOf(mine[1])

----------------------------------------------------------------------------
(* Properties of the column collector (SpecCol).                            *)

Present(record, key, cell) ==
    /\ (key \in DOMAIN record) <=> (cell # NULL)
    /\ (key \in DOMAIN record) => record[key] = cell

\* C8: max_length, precision and scale are present in a column record
\* exactly when the catalog cell is not null, a cell of 0 included.
C8_OptionalFieldsFollowNull ==
    pc = "col_done" =>
        \A n \in DOMAIN columns :
            /\ Present(columns[n], "max_length",
                       col_rows[n].character_maximum_length)
            /\ Present(columns[n], "precision", col_rows[n].numeric_precision)
            /\ Present(columns[n], "scale", col_rows[n].numeric_scale)

\* C9: the comment of a column record is a string: the catalog description
\* when there is one, the empty string when the column_comment cell is
\* null; never null.
C9_CommentIsString ==
    pc = "col_done" =>
        \A n \in DOMAIN columns :
            /\ columns[n].comment # NULL
            /\ columns[n].comment =
                   IF col_rows[n].column_comment = NULL THEN Some("")
                   ELSE col_rows[n].column_comment

----------------------------------------------------------------------------
(* Properties of repeated invocations (SpecTwice).                          *)

----------------------------------------------------------------------------
(* Order of the queries of one invocation (Spec).                           *)

\* How many collectors of the n-th listed entity are called: all of them,
\* or those up to the first that fails.
CalledCount(n) ==
    IF AllSucceed(n) THEN Len(Collectors(kind))
    ELSE CHOOSE p \in DOMAIN Collectors(kind) : CalledFails(n, p)

EntityCalls(n) == [p \in 1..CalledCount(n) |-> <<Collectors(kind)[p], n>>]

RECURSIVE CollectorCallsFrom(_)
CollectorCallsFrom(n) ==
    IF n > Len(db.entities) THEN <<>>
    ELSE EntityCalls(n) \o CollectorCallsFrom(n + 1)

\* The queries the claim expects of a whole invocation on db.
ExpectedCalls ==
    IF db.driver_fails THEN <<>>
    ELSE IF db.schema_fails THEN << <<"schemas", 0>> >>
    ELSE IF db.list_fails THEN << <<"schemas", 0>>, <<"list", 0>> >>
    ELSE << <<"schemas", 0>>, <<"list", 0>> >> \o CollectorCallsFrom(1)

\* C12: the queries of an invocation are issued in the order schema
\* enumeration, entity listing, then for each listed entity in list order
\* its collectors in their fixed order; after a failing collector no later
\* collector of that entity is called and the next query is the column
\* collector of the next listed entity; every listed entity has its column
\* collector called exactly once.
C12_QueryOrder ==
    /\ Len(calls) <= Len(ExpectedCalls)
    /\ calls = SubSeq(ExpectedCalls, 1, Len(calls))
    /\ pc = "done" => calls = ExpectedCalls
    /\ (pc = "done" /\ ~TopFailure) =>
          \A n \in DOMAIN db.entities :
              Cardinality({p \in DOMAIN calls : calls[p] = <<"columns", n>>}) = 1

\* The second collector of an entity failed and the query issued next was
\* the column collector of the next listed entity.
C12_Witness ==
    /\ pc = "done"
    /\ \E p \in DOMAIN calls, n \in DOMAIN db.entities :
          /\ CalledFails(n, 2)
          /\ calls[p] = <<Collectors(kind)[2], n>>
          /\ p + 1 \in DOMAIN calls
          /\ calls[p + 1] = <<"columns", n + 1>>

====
